---- MODULE Spec2Model ----
(***************************************************************************)
(* Model of src/webhook_validator.go: the mock Slack client (a registry    *)
(* behind a sync.RWMutex), Validator.ValidateMessage (a check goroutine    *)
(* racing the deadline of a child context), the check itself,              *)
(* validateSlackChannelCreation, and Validator.WebhookHandler, which       *)
(* decodes an admission review request, calls ValidateMessage and writes   *)
(* the status and the encoded response.                                    *)
(*                                                                         *)
(* Strings are sequences of string tokens, so that fmt.Sprintf is a        *)
(* concatenation and assert.Contains is a sub-sequence test.  Time is in   *)
(* milliseconds.  A timer fires at its instant and a goroutine parked in   *)
(* a select is resumed by the first channel operation that makes a case    *)
(* ready (the Go runtime picks the case when the channel is written or     *)
(* closed, not when the goroutine is next scheduled); every other          *)
(* goroutine step may be delayed for any length of time.                   *)
(*                                                                         *)
(* The file as written does not compile (the closing brace of the          *)
(* "if err != nil" block of ValidateMessage is missing before the second   *)
(* case of the select, and CreateConversation declares name as a bool).    *)
(* The model follows the evident structure: a two-case select, and name    *)
(* a string.                                                               *)
(***************************************************************************)
EXTENDS Integers, Sequences, FiniteSets, TLC

\* Number of concurrent ValidateMessage calls in the concurrent harness.
NumVals == 2
\* Longest subscription list of a candidate in the mixed harness.
MixedSubs == 1
\* Longest subscription list of a candidate in the single-call harness.
MaxSubs == 2

\* time.Sleep(100 * time.Millisecond) in validateSlackChannelCreation.
SleepMs == 100
\* NewValidator: timeout: 30 * time.Second.
DefaultTimeoutMs == 30000
\* TestTimeoutValidation: timeout: 10 * time.Millisecond.
TestTimeoutMs == 10

VARIABLES
    harness,        \* which harness drives the run: "concurrent", "mixed", "single",
                    \* "http" (requests through WebhookHandler), "probe", "locking"
                    \* "among" (a call with any candidate among the concurrent ones)
                    \* or "receiver" (requests to the plain webhook receiver)
    timeout,        \* Validator.timeout
    now,            \* the clock, in ms
    channels,       \* MockSlackClient.channels: the entries [id, private] of the map
    lastChannelReq, \* MockSlackClient.lastChannelReq
    writer,         \* MockSlackClient.mu: the goroutine holding the write lock, 0 if none
    readers,        \* MockSlackClient.mu: the goroutines holding a read lock
    pcV,            \* per call: position of ValidateMessage
    msg,            \* per call: the candidate (*MockKargoMessage)
    resp,           \* per call: the WebhookResponse
    retErr,         \* per call: the error returned with resp
    ctxErr,         \* per call: asyncCtx.Err() (empty while asyncCtx is not done)
    deadline,       \* per call: the instant asyncCtx's timer fires
    doneCh,         \* per call: the buffer of done (capacity 1)
    pcC,            \* per call: position of the check goroutine
    channelID,      \* per call: the check's local channelID
    chkErr,         \* per call: the check's return value
    wake,           \* per call: the instant time.Sleep returns
    req,            \* per call: the HTTP request WebhookHandler serves
    pcH,            \* per call: position of WebhookHandler
    status,         \* per call: the HTTP status written (0 while none is)
    body,           \* per call: the HTTP response body written
    probe,          \* a goroutine calling ChannelExists from outside the validator
    rcv             \* per request: the plain receiver's webhookHandler serving it

vars == <<harness, timeout, now, channels, lastChannelReq, writer, readers, pcV, msg,
          resp, retErr, ctxErr, deadline, doneCh, pcC, channelID, chkErr, wake,
          req, pcH, status, body, probe, rcv>>

handlerVars == <<req, pcH, status, body>>
\* what no step of ValidateMessage or of its check touches
outerVars == <<handlerVars, probe, rcv>>

clientVars == <<channels, lastChannelReq, writer, readers>>
callVars == <<pcV, resp, retErr, ctxErr, deadline>>

Vals == 1..NumVals

----------------------------------------------------------------------------
(* Strings and errors *)

EmptyStr == <<>>
NilErr == <<>>

\* strings.Contains at token granularity
Contains(s, sub) ==
    \E i \in 0..(Len(s) - Len(sub)) : SubSeq(s, i + 1, i + Len(sub)) = sub

\* context.DeadlineExceeded and context.Canceled
DeadlineExceeded == <<"context", "deadline", "exceeded">>
Canceled == <<"context", "canceled">>

ErrSlackChannelRequired == <<"slackChannel", "is", "required">>
ErrNamespaceRequired == <<"namespace", "is", "required">>
ErrStageEmpty == <<"subscription", "stage", "cannot", "be", "empty">>
ErrNoEvents == <<"subscription", "must", "have", "at", "least", "one", "event">>
ErrCreateFailed(err) == <<"failed", "to", "create", "Slack", "channel:">> \o err
ErrNotFound(id) == <<"Slack", "channel">> \o id \o <<"not", "found", "after", "creation">>

TimeoutReason == <<"Slack", "channel", "validation", "timeout">>
FailureReason(err) == <<"Slack", "channel", "validation", "failed:">> \o err

HexDigits == <<"0", "1", "2", "3", "4", "5", "6", "7", "8", "9", "a", "b", "c", "d", "e", "f">>

RECURSIVE HexPad(_, _)
\* the low `width` hexadecimal digits of n, most significant first
HexPad(n, width) ==
    IF width = 0 THEN <<>>
    ELSE Append(HexPad(n \div 16, width - 1), HexDigits[(n % 16) + 1])

\* fmt.Sprintf("C%08x", n)
FormatChannelID(n) == <<"C">> \o HexPad(n, 8)

\* fmt.Sprintf("test-uid-%d", time.Now().UnixNano()): the identifier is the
\* clock reading and nothing else (calls between which no timer elapses read
\* the same instant)
FormatUID(t) == <<"test-uid-", t>>

----------------------------------------------------------------------------
(* Candidates *)

SeqsUpTo(S, n) == UNION {[1..k -> S] : k \in 0..n}

\* TestConcurrentValidations: SlackChannel: fmt.Sprintf("team-channel-%d", id)
ChannelName(v) == <<"team-channel-", HexDigits[v + 1]>>

SubEntries ==
    [stage : {EmptyStr, <<"production">>},
     events : {<<>>, << <<"PromoteSucceeded">> >>}]

\* entries that are well-formed, or empty in both fields
MixedEntries == {e \in SubEntries : (e.stage = EmptyStr) <=> (e.events = <<>>)}

Candidates(v, entries, n) ==
    [slackChannel : {EmptyStr, ChannelName(v)},
     namespace : {EmptyStr, <<"kargo">>},
     channelType : {EmptyStr, <<"private">>},
     subscriptions : SeqsUpTo(entries, n)]

\* TestConcurrentValidations: the candidate of goroutine v (no channel type, no
\* subscriptions), and the same candidate without its slackChannel
CrowdCandidates(v) ==
    [slackChannel : {EmptyStr, ChannelName(v)},
     namespace : {<<"concurrent-test">>},
     channelType : {EmptyStr},
     subscriptions : {<<>>}]

\* candidates passing or failing each rule of the check: slackChannel and
\* namespace empty or not, no subscription, a well-formed one or an empty one
AnyCandidates(v) ==
    [slackChannel : {EmptyStr, ChannelName(v)},
     namespace : {EmptyStr, <<"kargo">>},
     channelType : {EmptyStr},
     subscriptions : {<<>>} \cup {<<e>> : e \in MixedEntries}]

\* the calls a harness makes, and the candidates it passes
HarnessCalls == IF harness \in {"single", "http"} THEN 1 ELSE NumVals

HarnessCandidates(v) ==
    IF harness = "concurrent" THEN CrowdCandidates(v)
    ELSE IF harness \in {"probe", "locking"}
         THEN {c \in CrowdCandidates(v) : c.slackChannel # EmptyStr}
    ELSE IF harness = "mixed" THEN Candidates(v, MixedEntries, MixedSubs)
    ELSE IF harness = "among"
         THEN IF v = 1 THEN AnyCandidates(v)
              ELSE {c \in CrowdCandidates(v) : c.slackChannel # EmptyStr}
    ELSE IF harness = "http" THEN {msg[v]}
    ELSE Candidates(v, SubEntries, MaxSubs)

NoMsg ==
    [slackChannel |-> EmptyStr, namespace |-> EmptyStr, channelType |-> EmptyStr,
     subscriptions |-> <<>>]

NoResp == [uid |-> EmptyStr, allowed |-> FALSE, result |-> <<>>]

\* resp.Response.Result = map[string]string{"status": "Failure", "reason": r}
FailureResult(r) == << [status |-> <<"Failure">>, reason |-> r] >>

----------------------------------------------------------------------------
(* The subscription loop of validateSlackChannelCreation *)

RECURSIVE CheckSubscriptionsEventsFirst(_)
\* the loop with its two tests in the other order
CheckSubscriptionsEventsFirst(subs) ==
    IF subs = <<>> THEN NilErr
    ELSE IF Len(Head(subs).events) = 0 THEN ErrNoEvents
    ELSE IF Head(subs).stage = EmptyStr THEN ErrStageEmpty
    ELSE CheckSubscriptionsEventsFirst(Tail(subs))

RECURSIVE CheckSubscriptions(_)
\* for _, sub := range msg.Spec.Subscriptions { ... }
CheckSubscriptions(subs) ==
    IF subs = <<>> THEN NilErr
    ELSE IF Head(subs).stage = EmptyStr THEN ErrStageEmpty
    ELSE IF Len(Head(subs).events) = 0 THEN ErrNoEvents
    ELSE CheckSubscriptions(Tail(subs))

\* the required-field rules in the other order
CheckRequiredFieldsNamespaceFirst(m) ==
    IF m.namespace = EmptyStr THEN ErrNamespaceRequired
    ELSE IF m.slackChannel = EmptyStr THEN ErrSlackChannelRequired
    ELSE NilErr

\* the two required-field rules that precede provisioning
CheckRequiredFields(m) ==
    IF m.slackChannel = EmptyStr THEN ErrSlackChannelRequired
    ELSE IF m.namespace = EmptyStr THEN ErrNamespaceRequired
    ELSE NilErr

----------------------------------------------------------------------------
(* HTTP requests and JSON *)

StatusOK == 200
StatusBadRequest == 400
StatusMethodNotAllowed == 405
StatusInternalServerError == 500

\* o[k] of a JSON mapping, the zero value when the key is absent
Field(o, k) == IF k \in DOMAIN o THEN o[k] ELSE <<>>

\* json.Marshal of the Spec of a MockKargoMessage: channelType and subscriptions
\* are omitempty
SpecOf(m) ==
    LET keys == {"slackChannel"}
                    \cup (IF m.channelType # EmptyStr THEN {"channelType"} ELSE {})
                    \cup (IF m.subscriptions # <<>> THEN {"subscriptions"} ELSE {})
    IN  [k \in keys |-> IF k = "slackChannel" THEN m.slackChannel
                        ELSE IF k = "channelType" THEN m.channelType
                        ELSE m.subscriptions]

\* json.Marshal of a MockKargoMessage, as the test puts it in the request's object
ObjectOf(m) == [metadata |-> [namespace |-> m.namespace], spec |-> SpecOf(m)]

\* json.Unmarshal(msgBytes, &msg): absent keys leave the zero value
DecodeMessage(obj) ==
    LET meta == Field(obj, "metadata")
        spec == Field(obj, "spec")
    IN  [slackChannel |-> Field(spec, "slackChannel"),
         namespace |-> Field(meta, "namespace"),
         channelType |-> Field(spec, "channelType"),
         subscriptions |-> Field(spec, "subscriptions")]

\* the mappings a request's object may be: a marshalled message, a mapping
\* without spec, the empty mapping
Mappings(v) ==
    {ObjectOf(m) : m \in Candidates(v, SubEntries, MixedSubs)}
        \cup {<<>>, [metadata |-> [namespace |-> <<"kargo">>]]}

\* the object field of a request: absent, a string, a list or a mapping
NoObject == [kind |-> "absent", value |-> <<>>]

Objects(v) ==
    [kind : {"absent", "string", "list"}, value : {<<>>}]
        \cup [kind : {"mapping"}, value : Mappings(v)]

\* request bodies: one that cannot be read, one that is not JSON, JSON that does
\* not fit WebhookRequest, the JSON null, and admission review envelopes
Bodies(v) ==
    [kind : {"unreadable", "syntax", "mistyped", "null"}, uid : {EmptyStr},
     object : {NoObject}]
        \cup [kind : {"envelope"}, uid : {<<"test-http-uid">>},
              object : Objects(v)]

Methods == {"POST", "GET"}

Requests(v) == [method : Methods, body : Bodies(v)]

NoReq == [method |-> "", body |-> [kind |-> "none", uid |-> EmptyStr, object |-> NoObject]]

NoBody == [kind |-> "none", text |-> EmptyStr, json |-> <<>>]

\* http.Error(w, text, code): the body is the text
TextBody(t) == [kind |-> "text", text |-> t, json |-> <<>>]

\* json.NewEncoder(w).Encode(resp): result is omitempty
EncodeResponse(r) ==
    [kind |-> "json", text |-> EmptyStr,
     json |-> [apiVersion |-> <<"admission.k8s.io/v1">>,
               kind |-> <<"AdmissionReview">>,
               response |-> IF r.result = <<>>
                            THEN [uid |-> r.uid, allowed |-> r.allowed]
                            ELSE [uid |-> r.uid, allowed |-> r.allowed,
                                  result |-> r.result[1]]]]

NoProbe == [pc |-> "idle", id |-> EmptyStr, ans |-> FALSE]

StatusUnauthorized == 401
StatusForbidden == 403

\* const expectedSecret
ExpectedSecret == "my-super-secret-123"

\* the X-Webhook-Secret values of a request: none, an empty one, a wrong one,
\* the expected one
SecretHeaders == {<<>>, <<"">>, <<"my-super-secret-124">>, <<ExpectedSecret>>}

\* the bodies of a request to the receiver: one that cannot be read, one that
\* is not JSON, a JSON mapping
RcvBodies == {"unreadable", "text", "json"}

RcvRequests == [method : {"POST", "GET", "PUT"}, secret : SecretHeaders, body : RcvBodies]

NoRcvReq == [method |-> "", secret |-> <<>>, body |-> ""]

NoRcv == [pc |-> "none", req |-> NoRcvReq, status |-> 0, text |-> "", read |-> FALSE,
          log |-> <<>>]

\* r.Header.Get(key): the first value of the header, "" when there is none
HeaderGet(h) == IF h = <<>> THEN "" ELSE h[1]

----------------------------------------------------------------------------
(* Initial states *)

InitWith(h, timeouts) ==
    /\ harness = h
    /\ timeout \in timeouts
    /\ now = 0
    /\ channels = {}
    /\ lastChannelReq = EmptyStr
    /\ writer = 0
    /\ readers = {}
    /\ pcV = [v \in Vals |-> "idle"]
    /\ msg = [v \in Vals |-> NoMsg]
    /\ resp = [v \in Vals |-> NoResp]
    /\ retErr = [v \in Vals |-> NilErr]
    /\ ctxErr = [v \in Vals |-> NilErr]
    /\ deadline = [v \in Vals |-> 0]
    /\ doneCh = [v \in Vals |-> <<>>]
    /\ pcC = [v \in Vals |-> "none"]
    /\ channelID = [v \in Vals |-> EmptyStr]
    /\ chkErr = [v \in Vals |-> NilErr]
    /\ wake = [v \in Vals |-> 0]
    /\ req = [v \in Vals |-> NoReq]
    /\ pcH = [v \in Vals |-> "none"]
    /\ status = [v \in Vals |-> 0]
    /\ body = [v \in Vals |-> NoBody]
    /\ probe = NoProbe
    /\ rcv = [v \in Vals |-> NoRcv]

\* TestConcurrentValidations: NewValidator(slackClient), many calls at once
Init == InitWith("concurrent", {DefaultTimeoutMs})

\* concurrent calls with candidates of every kind
MixedInit == InitWith("mixed", {DefaultTimeoutMs})

\* one call on a validator with either budget
OneInit == InitWith("single", {TestTimeoutMs, DefaultTimeoutMs})

\* TestWebhookValidator_HTTPHandler: one request served by WebhookHandler
HttpInit == InitWith("http", {TestTimeoutMs, DefaultTimeoutMs})

\* TestConcurrentValidations as written: every candidate names its channel, so
\* every check calls the client
LockInit == InitWith("locking", {DefaultTimeoutMs})

\* a call with any candidate running among those of TestConcurrentValidations
AmongInit == InitWith("among", {DefaultTimeoutMs})

\* the plain receiver serving requests
RcvInit == InitWith("receiver", {DefaultTimeoutMs})

\* concurrent calls, and a goroutine asking the client whether channels exist
ProbeInit == InitWith("probe", {DefaultTimeoutMs})

----------------------------------------------------------------------------
(* MockSlackClient *)

\* a Lock that excludes nobody
CanLockAlways(v) == TRUE

\* m.mu.Lock() returns: no writer and no reader holds the lock
CanLock(v) == writer = 0 /\ readers = {}

\* an RLock that does not wait for the writer
CanRLockAlways(v) == TRUE

\* m.mu.RLock() returns: no writer holds the lock
CanRLock(v) == writer = 0

\* the size of the map that is never written, m.conversations, taken instead
LenConversations == 0

\* len(m.channels)
LenChannels == Cardinality(channels)

\* a store that replaces the map by one holding the new entry only
MapPutOnly(m, id, isPrivate) == {[id |-> id, private |-> isPrivate]}

\* m.channels[id] = isPrivate
MapPut(m, id, isPrivate) ==
    {e \in m : e.id # id} \cup {[id |-> id, private |-> isPrivate]}

\* a lookup that knows only the entry created last
MapHasNewest(m, id) == id = FormatChannelID(Cardinality(m) - 1)

\* a lookup that takes the stored flag for the presence of the key
MapHasValue(m, id) == \E e \in m : e.id = id /\ e.private

\* _, exists := m.channels[id]
MapHas(m, id) == \E e \in m : e.id = id

\* a client whose creation call fails
CreateConversationFails == <<"channel_limit_reached">>

\* the error CreateConversation returns
CreateConversationErr == NilErr

----------------------------------------------------------------------------
(* Validator.ValidateMessage *)

\* case err := <-done is ready
DoneReady(v) == doneCh[v] # <<>>

\* a wait on done alone, with no case for asyncCtx.Done()
CtxDoneNever(v) == FALSE

\* case <-asyncCtx.Done() is ready
CtxDoneReady(v) == ctxErr[v] # NilErr

\* the response after case err := <-done
RespOnDone(r, err) ==
    IF err # NilErr
    THEN [r EXCEPT !.allowed = FALSE, !.result = FailureResult(FailureReason(err))]
    ELSE r

\* the response after case <-asyncCtx.Done()
RespOnCtxDone(r) ==
    [r EXCEPT !.allowed = FALSE, !.result = FailureResult(TimeoutReason)]

\* the timeout branch returning a nil error
ErrOnCtxDoneNil(v) == NilErr

\* the timeout branch returning context.DeadlineExceeded whatever ended the scope
ErrOnCtxDoneFixed(v) == DeadlineExceeded

\* the error returned with it: asyncCtx.Err()
ErrOnCtxDone(v) == ctxErr[v]

\* the budget taken in seconds instead of milliseconds
DeadlineAtSeconds(t) == t + timeout * 1000

\* context.WithTimeout(ctx, v.timeout): the instant the timer fires
DeadlineAt(t) == t + timeout

\* ValidateMessage up to the select: build resp, derive asyncCtx, launch the check
Start(v) ==
    /\ v <= HarnessCalls
    /\ pcV[v] = "idle"
    /\ harness = "http" => pcH[v] = "decoded"
    /\ \A w \in Vals : w < v => pcV[w] # "idle"
    /\ \E m \in HarnessCandidates(v) : msg' = [msg EXCEPT ![v] = m]
    /\ resp' = [resp EXCEPT ![v] = [uid |-> FormatUID(now), allowed |-> TRUE, result |-> <<>>]]
    /\ deadline' = [deadline EXCEPT ![v] = DeadlineAt(now)]
    /\ pcV' = [pcV EXCEPT ![v] = "select"]
    /\ pcC' = [pcC EXCEPT ![v] = "rules"]
    /\ UNCHANGED <<outerVars, harness, timeout, now, clientVars, retErr, ctxErr, doneCh, channelID,
                   chkErr, wake>>

\* the parent context is cancelled, or its own deadline passes, while the call waits
ParentDone(v) ==
    /\ pcV[v] = "select"
    /\ ctxErr[v] = NilErr
    /\ \E e \in {Canceled, DeadlineExceeded} : ctxErr' = [ctxErr EXCEPT ![v] = e]
    /\ UNCHANGED <<outerVars, harness, timeout, now, clientVars, pcV, msg, resp, retErr, deadline,
                   doneCh, pcC, channelID, chkErr, wake>>

\* the timer of context.WithTimeout fires
DeadlineFires(v) ==
    /\ pcV[v] = "select"
    /\ ctxErr[v] = NilErr
    /\ now >= deadline[v]
    /\ ctxErr' = [ctxErr EXCEPT ![v] = DeadlineExceeded]
    /\ UNCHANGED <<outerVars, harness, timeout, now, clientVars, pcV, msg, resp, retErr, deadline,
                   doneCh, pcC, channelID, chkErr, wake>>

\* case err := <-done, then return (the deferred cancel() ends asyncCtx)
RecvDone(v) ==
    /\ pcV[v] = "select"
    /\ DoneReady(v)
    /\ resp' = [resp EXCEPT ![v] = RespOnDone(resp[v], Head(doneCh[v]))]
    /\ retErr' = [retErr EXCEPT ![v] = Head(doneCh[v])]
    /\ doneCh' = [doneCh EXCEPT ![v] = Tail(doneCh[v])]
    /\ ctxErr' = [ctxErr EXCEPT ![v] = IF ctxErr[v] = NilErr THEN Canceled ELSE ctxErr[v]]
    /\ deadline' = [deadline EXCEPT ![v] = 0]
    /\ pcV' = [pcV EXCEPT ![v] = "returned"]
    /\ UNCHANGED <<outerVars, harness, timeout, now, clientVars, msg, pcC, channelID, chkErr, wake>>

\* case <-asyncCtx.Done(), then return
RecvCtxDone(v) ==
    /\ pcV[v] = "select"
    /\ CtxDoneReady(v)
    /\ resp' = [resp EXCEPT ![v] = RespOnCtxDone(resp[v])]
    /\ retErr' = [retErr EXCEPT ![v] = ErrOnCtxDone(v)]
    /\ deadline' = [deadline EXCEPT ![v] = 0]
    /\ pcV' = [pcV EXCEPT ![v] = "returned"]
    /\ UNCHANGED <<outerVars, harness, timeout, now, clientVars, msg, ctxErr, doneCh, pcC, channelID,
                   chkErr, wake>>

----------------------------------------------------------------------------
(* The check goroutine: validateSlackChannelCreation, then done <- err *)

\* a check that goes on to provisioning whatever the rules found
AfterRulesContinue(err) == "lock"

\* a failed rule returns at once, otherwise CreateConversation is called
AfterRules(err) == IF err # NilErr THEN "send" ELSE "lock"

\* the two required-field rules of validateSlackChannelCreation
CheckRules(v) ==
    /\ pcC[v] = "rules"
    /\ chkErr' = [chkErr EXCEPT ![v] = CheckRequiredFields(msg[v])]
    /\ pcC' = [pcC EXCEPT ![v] = AfterRules(CheckRequiredFields(msg[v]))]
    /\ UNCHANGED <<outerVars, harness, timeout, now, clientVars, callVars, msg, doneCh, channelID, wake>>

\* CreateConversation: m.mu.Lock()
CreateLock(v) ==
    /\ pcC[v] = "lock"
    /\ CanLock(v)
    /\ writer' = v
    /\ pcC' = [pcC EXCEPT ![v] = "alloc"]
    /\ UNCHANGED <<outerVars, harness, timeout, now, channels, lastChannelReq, readers, callVars, msg,
                   doneCh, channelID, chkErr, wake>>

\* CreateConversation: channelID := fmt.Sprintf("C%08x", len(m.channels))
CreateAlloc(v) ==
    /\ pcC[v] = "alloc"
    /\ channelID' = [channelID EXCEPT ![v] = FormatChannelID(LenChannels)]
    /\ pcC' = [pcC EXCEPT ![v] = "store"]
    /\ UNCHANGED <<outerVars, harness, timeout, now, clientVars, callVars, msg, doneCh, chkErr, wake>>

\* a store that records the name of the first request only
CreateStoreKeepsFirst(v) ==
    /\ pcC[v] = "store"
    /\ channels' = MapPut(channels, channelID[v], msg[v].channelType = <<"private">>)
    /\ lastChannelReq' = IF lastChannelReq = EmptyStr THEN msg[v].slackChannel
                         ELSE lastChannelReq
    /\ pcC' = [pcC EXCEPT ![v] = "unlock"]
    /\ UNCHANGED <<outerVars, harness, timeout, now, writer, readers, callVars, msg, doneCh,
                   channelID, chkErr, wake>>

\* CreateConversation: m.channels[channelID] = isPrivate; m.lastChannelReq = name
CreateStore(v) ==
    /\ pcC[v] = "store"
    /\ channels' = MapPut(channels, channelID[v], msg[v].channelType = <<"private">>)
    /\ lastChannelReq' = msg[v].slackChannel
    /\ pcC' = [pcC EXCEPT ![v] = "unlock"]
    /\ UNCHANGED <<outerVars, harness, timeout, now, writer, readers, callVars, msg, doneCh, channelID,
                   chkErr, wake>>

\* CreateConversation returning without the deferred Unlock
CreateReturnsLocked(v) ==
    /\ pcC[v] = "unlock"
    /\ chkErr' = [chkErr EXCEPT ![v] = NilErr]
    /\ pcC' = [pcC EXCEPT ![v] = "rlock"]
    /\ UNCHANGED <<outerVars, harness, timeout, now, clientVars, callVars, msg, doneCh,
                   channelID, wake>>

\* CreateConversation returns (the deferred m.mu.Unlock()); the caller tests err
CreateUnlock(v) ==
    /\ pcC[v] = "unlock"
    /\ writer' = IF writer = v THEN 0 ELSE writer
    /\ chkErr' = [chkErr EXCEPT ![v] =
                    IF CreateConversationErr # NilErr
                    THEN ErrCreateFailed(CreateConversationErr) ELSE NilErr]
    /\ pcC' = [pcC EXCEPT ![v] = IF CreateConversationErr # NilErr THEN "send" ELSE "rlock"]
    /\ UNCHANGED <<outerVars, harness, timeout, now, channels, lastChannelReq, readers, callVars, msg,
                   doneCh, channelID, wake>>

\* ChannelExists: m.mu.RLock()
ExistsRLock(v) ==
    /\ pcC[v] = "rlock"
    /\ CanRLock(v)
    /\ readers' = readers \cup {v}
    /\ pcC' = [pcC EXCEPT ![v] = "lookup"]
    /\ UNCHANGED <<outerVars, harness, timeout, now, channels, lastChannelReq, writer, callVars, msg,
                   doneCh, channelID, chkErr, wake>>

\* ChannelExists: _, exists := m.channels[channelID]
ExistsLookup(v) ==
    /\ pcC[v] = "lookup"
    /\ chkErr' = [chkErr EXCEPT ![v] =
                    IF MapHas(channels, channelID[v]) THEN NilErr
                    ELSE ErrNotFound(channelID[v])]
    /\ pcC' = [pcC EXCEPT ![v] = "runlock"]
    /\ UNCHANGED <<outerVars, harness, timeout, now, clientVars, callVars, msg, doneCh, channelID, wake>>

\* ChannelExists returns (the deferred m.mu.RUnlock()); the caller tests the answer
ExistsRUnlock(v) ==
    /\ pcC[v] = "runlock"
    /\ readers' = readers \ {v}
    /\ pcC' = [pcC EXCEPT ![v] = IF chkErr[v] # NilErr THEN "send" ELSE "sleep"]
    /\ UNCHANGED <<outerVars, harness, timeout, now, channels, lastChannelReq, writer, callVars, msg,
                   doneCh, channelID, chkErr, wake>>

\* time.Sleep(100 * time.Millisecond) begins
Sleep(v) ==
    /\ pcC[v] = "sleep"
    /\ wake' = [wake EXCEPT ![v] = now + SleepMs]
    /\ pcC' = [pcC EXCEPT ![v] = "asleep"]
    /\ UNCHANGED <<outerVars, harness, timeout, now, clientVars, callVars, msg, doneCh, channelID, chkErr>>

\* a check that deletes its channel again when a subscription is malformed
WakeRollsBack(v) ==
    /\ pcC[v] = "asleep"
    /\ now >= wake[v]
    /\ chkErr' = [chkErr EXCEPT ![v] = CheckSubscriptions(msg[v].subscriptions)]
    /\ channels' = IF CheckSubscriptions(msg[v].subscriptions) # NilErr
                   THEN {e \in channels : e.id # channelID[v]} ELSE channels
    /\ wake' = [wake EXCEPT ![v] = 0]
    /\ pcC' = [pcC EXCEPT ![v] = "send"]
    /\ UNCHANGED <<outerVars, harness, timeout, now, lastChannelReq, writer, readers,
                   callVars, msg, doneCh, channelID>>

\* time.Sleep returns; the subscription loop runs and the check returns
Wake(v) ==
    /\ pcC[v] = "asleep"
    /\ now >= wake[v]
    /\ chkErr' = [chkErr EXCEPT ![v] = CheckSubscriptions(msg[v].subscriptions)]
    /\ wake' = [wake EXCEPT ![v] = 0]
    /\ pcC' = [pcC EXCEPT ![v] = "send"]
    /\ UNCHANGED <<outerVars, harness, timeout, now, clientVars, callVars, msg, doneCh, channelID>>

\* the goroutine writes its outcome into the shared response as well
SendIntoResp(v) ==
    /\ pcC[v] = "send"
    /\ Len(doneCh[v]) < 1
    /\ doneCh' = [doneCh EXCEPT ![v] = Append(doneCh[v], chkErr[v])]
    /\ resp' = [resp EXCEPT ![v] = RespOnDone(resp[v], chkErr[v])]
    /\ chkErr' = [chkErr EXCEPT ![v] = NilErr]
    /\ pcC' = [pcC EXCEPT ![v] = "exit"]
    /\ UNCHANGED <<outerVars, harness, timeout, now, clientVars, pcV, retErr, ctxErr, deadline, msg,
                   channelID, wake>>

\* done made without a buffer: the send waits for the receiver
SendUnbuffered(v) ==
    /\ pcC[v] = "send"
    /\ pcV[v] = "select"
    /\ Len(doneCh[v]) < 1
    /\ doneCh' = [doneCh EXCEPT ![v] = Append(doneCh[v], chkErr[v])]
    /\ chkErr' = [chkErr EXCEPT ![v] = NilErr]
    /\ pcC' = [pcC EXCEPT ![v] = "exit"]
    /\ UNCHANGED <<outerVars, harness, timeout, now, clientVars, callVars, msg, channelID, wake>>

\* done <- err; the goroutine ends
Send(v) ==
    /\ pcC[v] = "send"
    /\ Len(doneCh[v]) < 1
    /\ doneCh' = [doneCh EXCEPT ![v] = Append(doneCh[v], chkErr[v])]
    /\ chkErr' = [chkErr EXCEPT ![v] = NilErr]
    /\ pcC' = [pcC EXCEPT ![v] = "exit"]
    /\ UNCHANGED <<outerVars, harness, timeout, now, clientVars, callVars, msg, channelID, wake>>

----------------------------------------------------------------------------
(* Validator.WebhookHandler *)

\* json.Unmarshal(body, &req) returns an error
UnmarshalFails(b) == b.kind \in {"syntax", "mistyped"}

\* req.Request.Object after a successful Unmarshal (the JSON null leaves req zero)
RequestObject(b) == IF b.kind = "envelope" THEN b.object ELSE NoObject

\* a handler that takes any object that is present
IsMappingLoose(o) == o.kind # "absent"

\* obj, ok := req.Request.Object.(map[string]interface{})
IsMapping(o) == o.kind = "mapping"

\* the text of the http.Error the decoding steps end in, empty when they pass
DecodeFailure(r) ==
    IF r.body.kind = "unreadable" THEN <<"Failed", "to", "read", "request", "body">>
    ELSE IF UnmarshalFails(r.body) THEN <<"Failed", "to", "parse", "JSON">>
    ELSE IF ~IsMapping(RequestObject(r.body)) THEN <<"Invalid", "object", "format">>
    ELSE EmptyStr

\* WebhookHandler up to the call of ValidateMessage: read the body, unmarshal the
\* envelope, take the object as a mapping and decode the message from it
HandlerDecode(v) ==
    /\ harness = "http"
    /\ v <= HarnessCalls
    /\ pcH[v] = "none"
    /\ \E r \in Requests(v) :
        /\ req' = [req EXCEPT ![v] = r]
        /\ IF DecodeFailure(r) # EmptyStr
           THEN /\ status' = [status EXCEPT ![v] = StatusBadRequest]
                /\ body' = [body EXCEPT ![v] = TextBody(DecodeFailure(r))]
                /\ pcH' = [pcH EXCEPT ![v] = "done"]
                /\ msg' = msg
           ELSE /\ msg' = [msg EXCEPT ![v] = DecodeMessage(RequestObject(r.body).value)]
                /\ pcH' = [pcH EXCEPT ![v] = "decoded"]
                /\ UNCHANGED <<status, body>>
    /\ UNCHANGED <<probe, rcv, harness, timeout, now, clientVars, callVars, doneCh, pcC,
                   channelID, chkErr, wake>>

\* a handler answering 200 whatever ValidateMessage returned
StatusForAlwaysOK(err) == StatusOK

\* err != nil: w.WriteHeader(http.StatusInternalServerError); otherwise the
\* first write sends 200
StatusFor(err) == IF err # NilErr THEN StatusInternalServerError ELSE StatusOK

\* WebhookHandler after ValidateMessage has returned: status and encoded envelope
HandlerRespond(v) ==
    /\ pcH[v] = "decoded"
    /\ pcV[v] = "returned"
    /\ status' = [status EXCEPT ![v] = StatusFor(retErr[v])]
    /\ body' = [body EXCEPT ![v] = EncodeResponse(resp[v])]
    /\ pcH' = [pcH EXCEPT ![v] = "done"]
    /\ UNCHANGED <<req, probe, rcv, harness, timeout, now, clientVars, callVars, msg, doneCh,
                   pcC, channelID, chkErr, wake>>

----------------------------------------------------------------------------
(* A goroutine outside the validator calling MockSlackClient.ChannelExists *)

\* the identifiers asked about: the first one CreateConversation gives out and
\* the last one the calls of the harness can be given
ProbeIds == {FormatChannelID(0), FormatChannelID(NumVals - 1)}

\* ChannelExists(id): m.mu.RLock()
ProbeRLock ==
    /\ harness = "probe"
    /\ probe.pc = "idle"
    /\ CanRLock(0)
    /\ \E id \in ProbeIds : probe' = [pc |-> "lookup", id |-> id, ans |-> FALSE]
    /\ readers' = readers \cup {0}
    /\ UNCHANGED <<handlerVars, rcv, harness, timeout, now, channels, lastChannelReq, writer,
                   callVars, msg, doneCh, pcC, channelID, chkErr, wake>>

\* ChannelExists(id): _, exists := m.channels[id]
ProbeLookup ==
    /\ probe.pc = "lookup"
    /\ probe' = [probe EXCEPT !.pc = "runlock", !.ans = MapHas(channels, probe.id)]
    /\ UNCHANGED <<handlerVars, rcv, harness, timeout, now, clientVars, callVars, msg, doneCh,
                   pcC, channelID, chkErr, wake>>

\* ChannelExists(id) returns (the deferred m.mu.RUnlock())
ProbeRUnlock ==
    /\ probe.pc = "runlock"
    /\ readers' = readers \ {0}
    /\ probe' = NoProbe
    /\ UNCHANGED <<handlerVars, rcv, harness, timeout, now, channels, lastChannelReq, writer,
                   callVars, msg, doneCh, pcC, channelID, chkErr, wake>>

----------------------------------------------------------------------------
(* The plain webhook receiver: webhookHandler of src/unnamed/part_000 *)

\* everything but rcv
validatorVars ==
    <<handlerVars, probe, harness, timeout, now, clientVars, callVars, msg, doneCh, pcC,
      channelID, chkErr, wake>>

\* a request arrives
RcvReceive(v) ==
    /\ harness = "receiver"
    /\ rcv[v].pc = "none"
    /\ \E r \in RcvRequests : rcv' = [rcv EXCEPT ![v] = [NoRcv EXCEPT !.pc = "method", !.req = r]]
    /\ UNCHANGED validatorVars

\* if r.Method != http.MethodPost
RcvCheckMethod(v) ==
    /\ rcv[v].pc = "method"
    /\ rcv' = [rcv EXCEPT ![v] =
                 IF rcv[v].req.method # "POST"
                 THEN [@ EXCEPT !.pc = "done", !.status = StatusMethodNotAllowed,
                                !.text = "Method not allowed"]
                 ELSE [@ EXCEPT !.pc = "secret"]]
    /\ UNCHANGED validatorVars

\* a test that takes any non-empty secret
SecretStatusAnyValue(secret) == IF secret # "" THEN 0 ELSE StatusUnauthorized

\* the status the test of the secret ends in, 0 when it passes
SecretStatus(secret) ==
    IF secret # ""
    THEN IF secret # ExpectedSecret THEN StatusForbidden ELSE 0
    ELSE StatusUnauthorized

\* if secret := r.Header.Get(secretHeader); secret != "" { ... } else { ... }
RcvCheckSecret(v) ==
    /\ rcv[v].pc = "secret"
    /\ LET st == SecretStatus(HeaderGet(rcv[v].req.secret))
       IN  rcv' = [rcv EXCEPT ![v] =
                     IF st = StatusForbidden
                     THEN [@ EXCEPT !.pc = "done", !.status = st, !.text = "Forbidden",
                                    !.log = Append(@, "Invalid secret")]
                     ELSE IF st = StatusUnauthorized
                     THEN [@ EXCEPT !.pc = "done", !.status = st,
                                    !.text = "Missing secret header"]
                     ELSE [@ EXCEPT !.pc = "read"]]
    /\ UNCHANGED validatorVars

\* body, err := io.ReadAll(r.Body)
RcvReadBody(v) ==
    /\ rcv[v].pc = "read"
    /\ rcv' = [rcv EXCEPT ![v] =
                 IF rcv[v].req.body = "unreadable"
                 THEN [@ EXCEPT !.pc = "done", !.status = StatusBadRequest,
                                !.text = "Bad request",
                                !.log = Append(@, "Error reading body")]
                 ELSE [@ EXCEPT !.pc = "log", !.read = TRUE]]
    /\ UNCHANGED validatorVars

\* the log lines, the pretty payload of a JSON body, and the 200 answer
RcvRespond(v) ==
    /\ rcv[v].pc = "log"
    /\ rcv' = [rcv EXCEPT ![v] =
                 [@ EXCEPT !.pc = "done", !.status = StatusOK,
                           !.text = "Webhook received successfully",
                           !.log = @ \o <<"Webhook received at", "Headers", "Raw body">>
                                     \o (IF rcv[v].req.body = "json"
                                         THEN <<"Pretty payload">> ELSE <<>>)]]
    /\ UNCHANGED validatorVars

\* the steps of webhookHandler serving request v
RcvStep(v) ==
    \/ RcvReceive(v)
    \/ RcvCheckMethod(v)
    \/ RcvCheckSecret(v)
    \/ RcvReadBody(v)
    \/ RcvRespond(v)

RcvNext == \E v \in Vals : RcvStep(v)

\* net/http serves each request on its own goroutine
RcvSpec == RcvInit /\ [][RcvNext]_vars

----------------------------------------------------------------------------
(* Time *)

\* a call parked in the select with a case ready, or with its timer due
Urgent(v) ==
    /\ pcV[v] = "select"
    /\ (DoneReady(v) \/ CtxDoneReady(v) \/ (ctxErr[v] = NilErr /\ now >= deadline[v]))

Timers ==
    {deadline[v] : v \in {w \in Vals : pcV[w] = "select"}}
        \cup {wake[v] : v \in {w \in Vals : pcC[w] = "asleep"}}

\* the clock advances to the next pending timer
Tick ==
    /\ \A v \in Vals : ~Urgent(v)
    /\ \E t \in Timers :
        /\ t > now
        /\ \A u \in Timers : u > now => t <= u
        /\ now' = t
    /\ UNCHANGED <<outerVars, harness, timeout, clientVars, callVars, msg, doneCh, pcC, channelID,
                   chkErr, wake>>

\* the steps of the check goroutine of call v
CheckStep(v) ==
    \/ CheckRules(v)
    \/ CreateLock(v)
    \/ CreateAlloc(v)
    \/ CreateStore(v)
    \/ CreateUnlock(v)
    \/ ExistsRLock(v)
    \/ ExistsLookup(v)
    \/ ExistsRUnlock(v)
    \/ Sleep(v)
    \/ Wake(v)
    \/ Send(v)

\* the steps of one call and of its check goroutine
CallStep(v) ==
    \/ Start(v)
    \/ DeadlineFires(v)
    \/ RecvDone(v)
    \/ RecvCtxDone(v)
    \/ CheckRules(v)
    \/ CreateLock(v)
    \/ CreateAlloc(v)
    \/ CreateStore(v)
    \/ CreateUnlock(v)
    \/ ExistsRLock(v)
    \/ ExistsLookup(v)
    \/ ExistsRUnlock(v)
    \/ Sleep(v)
    \/ Wake(v)
    \/ Send(v)

\* calls under context.Background(), as TestConcurrentValidations makes them
Next == (\E v \in Vals : CallStep(v)) \/ Tick

\* calls under a parent context that may end at any moment
OneNext == (\E v \in Vals : CallStep(v) \/ ParentDone(v)) \/ Tick

\* requests served by WebhookHandler; r.Context() may end at any moment
HttpNext ==
    \/ \E v \in Vals : CallStep(v) \/ ParentDone(v) \/ HandlerDecode(v) \/ HandlerRespond(v)
    \/ Tick

\* concurrent calls and a goroutine calling ChannelExists
ProbeNext ==
    \/ \E v \in Vals : CallStep(v)
    \/ ProbeRLock \/ ProbeLookup \/ ProbeRUnlock
    \/ Tick

\* timers fire and a ready select returns
Fairness ==
    /\ WF_vars(Tick)
    /\ \A v \in Vals :
        WF_vars(DeadlineFires(v)) /\ WF_vars(RecvDone(v)) /\ WF_vars(RecvCtxDone(v))

\* NumVals concurrent calls of TestConcurrentValidations on one validator and client
Spec == Init /\ [][Next]_vars

FairSpec == Spec /\ Fairness

\* NumVals concurrent calls with candidates of every kind
MixedSpec == MixedInit /\ [][Next]_vars

MixedFairSpec == MixedSpec /\ Fairness

\* one call, any candidate with up to MaxSubs subscriptions, any parent context
OneSpec == OneInit /\ [][OneNext]_vars

OneFairSpec == OneSpec /\ Fairness

\* a goroutine that can run is eventually run
CheckFairness == \A v \in Vals : WF_vars(CheckStep(v))

\* the concurrent calls of TestConcurrentValidations, all reaching the client
LockSpec == LockInit /\ [][Next]_vars

\* a call with any candidate among the calls of TestConcurrentValidations
AmongSpec == AmongInit /\ [][Next]_vars

\* the same, with every goroutine scheduled
LiveSpec == LockSpec /\ Fairness /\ CheckFairness

\* one call under any budget and parent context, with every goroutine scheduled
OneLiveSpec == OneSpec /\ Fairness /\ CheckFairness

\* one request through WebhookHandler
HttpSpec == HttpInit /\ [][HttpNext]_vars

\* concurrent calls observed through ChannelExists
ProbeSpec == ProbeInit /\ [][ProbeNext]_vars
----------------------------------------------------------------------------
(* Vocabulary of the properties *)

Returned(v) == pcV[v] = "returned"

CtxErrors == {DeadlineExceeded, Canceled}

\* the reason of a response, empty when it carries no result
ReasonOf(r) == IF r.result = <<>> THEN EmptyStr ELSE r.result[1].reason

\* the response is the timeout-class denial
IsTimeoutDenial(r) ==
    /\ ~r.allowed
    /\ r.result # <<>>
    /\ Contains(ReasonOf(r), <<"timeout">>)

\* the response is a denial reporting the check's own failure
IsCheckDenial(r) ==
    /\ ~r.allowed
    /\ r.result # <<>>
    /\ Contains(ReasonOf(r), <<"validation", "failed:">>)

\* the candidate passes both required-field rules
FieldsPresent(m) == m.slackChannel # EmptyStr /\ m.namespace # EmptyStr

BadEntry(e) == e.stage = EmptyStr \/ Len(e.events) = 0

\* every rule of the check is met
WellFormed(m) ==
    /\ FieldsPresent(m)
    /\ \A i \in 1..Len(m.subscriptions) : ~BadEntry(m.subscriptions[i])

\* the position of the first malformed subscription entry
FirstBad(subs) ==
    CHOOSE i \in 1..Len(subs) :
        BadEntry(subs[i]) /\ \A j \in 1..(i - 1) : ~BadEntry(subs[j])

\* the message the first malformed entry calls for
FirstViolation(subs) ==
    IF subs[FirstBad(subs)].stage = EmptyStr THEN ErrStageEmpty ELSE ErrNoEvents

\* the step of call v that returns from the case of asyncCtx.Done()
CtxDoneWins(v) ==
    pcV[v] = "select" /\ pcV'[v] = "returned" /\ doneCh'[v] = doneCh[v]

\* the step of call v that returns from the case of done
DoneWins(v) ==
    pcV[v] = "select" /\ pcV'[v] = "returned" /\ doneCh'[v] # doneCh[v]

----------------------------------------------------------------------------
(* C1: when the budget is smaller than the time the check needs, the call   *)
(* returns the timeout-class denial with a non-nil error and never the       *)
(* check's own outcome.  A candidate that passes the required-field rules    *)
(* needs the 100 ms wait, so under a smaller budget its call always ends in  *)
(* the timeout denial and the check's outcome, once delivered, stays unread  *)
(* in done; and whatever held the check up, its outcome is delivered to a    *)
(* waiting call, and returned by it, only at an instant no later than the    *)
(* deadline.                                                                 *)
C1_TimeoutWins ==
    /\ [](\A v \in Vals :
            (Returned(v) /\ FieldsPresent(msg[v]) /\ timeout < SleepMs) =>
                /\ IsTimeoutDenial(resp[v])
                /\ ~IsCheckDenial(resp[v])
                /\ retErr[v] \in CtxErrors
                /\ (pcC[v] = "exit" => Len(doneCh[v]) = 1))
    /\ [](\A v \in Vals : (pcV[v] = "select" /\ DoneReady(v)) => now <= deadline[v])
    /\ [][\A v \in Vals : DoneWins(v) => now <= deadline[v]]_vars

C1_Witness ==
    \E v \in Vals :
        /\ Returned(v) /\ WellFormed(msg[v]) /\ timeout < SleepMs
        /\ retErr[v] = DeadlineExceeded
        /\ pcC[v] = "exit" /\ doneCh[v] = <<NilErr>>

(* C2 as claimed: every well-formed candidate is allowed with a nil error.   *)
C2_Original ==
    \A v \in Vals :
        (Returned(v) /\ WellFormed(msg[v])) => (resp[v].allowed /\ retErr[v] = NilErr)

(* C2, amended: a well-formed candidate is allowed with a nil error and no   *)
(* result whenever the check's completion is what the select received; when  *)
(* the scope ended first it gets the timeout-class denial; it is never       *)
(* denied for a check failure.                                               *)
C2_WellFormedAllowed ==
    \A v \in Vals :
        (Returned(v) /\ WellFormed(msg[v])) =>
            IF retErr[v] \in CtxErrors
            THEN IsTimeoutDenial(resp[v])
            ELSE resp[v].allowed /\ retErr[v] = NilErr /\ resp[v].result = <<>>

C2_Witness ==
    \E v \in Vals :
        /\ Returned(v) /\ WellFormed(msg[v]) /\ Len(msg[v].subscriptions) > 1
        /\ resp[v].allowed /\ retErr[v] = NilErr
        /\ now < timeout

(* C3: once N concurrent calls with non-empty channel and namespace have run *)
(* their checks the registry holds exactly N entries, and at any moment the  *)
(* checks that have stored an entry hold pairwise distinct identifiers, all  *)
(* present in the registry, which has one entry per such check.              *)
Stored == {v \in Vals : channelID[v] # EmptyStr /\ pcC[v] # "store"}

C3_NoLostUpdate ==
    /\ Cardinality(channels) = Cardinality(Stored)
    /\ \A v \in Stored : MapHas(channels, channelID[v])
    /\ \A v, w \in Stored : v # w => channelID[v] # channelID[w]
    /\ (\A v \in 1..HarnessCalls : pcC[v] = "exit" /\ FieldsPresent(msg[v])) =>
            Cardinality({e.id : e \in channels}) = HarnessCalls

C3_Witness ==
    /\ HarnessCalls > 1
    /\ \A v \in 1..HarnessCalls : pcC[v] = "exit" /\ FieldsPresent(msg[v])
    /\ Cardinality(channels) = HarnessCalls

(* C4: a call is never still waiting after its deadline has passed (the      *)
(* check, however long it is held up, does not delay the decision), and      *)
(* every started call eventually returns: a call leaves the select only by   *)
(* returning, and eventually no call is left waiting in it.                  *)
C4_DecidesByDeadline ==
    /\ [](\A v \in Vals : pcV[v] = "select" => now <= deadline[v])
    /\ [][\A v \in Vals : pcV[v] = "select" => pcV'[v] \in {"select", "returned"}]_vars
    /\ <>[](\A v \in Vals : pcV[v] # "select")

\* a call has returned at its deadline while its check still waits for the lock
C4_Witness ==
    \E v \in Vals :
        /\ Returned(v) /\ retErr[v] = DeadlineExceeded
        /\ pcC[v] = "lock" /\ ~CanLock(v)

(* C5: a call is Pending (allowed, no result) until it returns; it returns   *)
(* in exactly one of Allowed, Denied(check failure), Denied(timeout); and    *)
(* once it has returned neither its position, its response nor its error     *)
(* changes again, whatever the abandoned check does afterwards.              *)
Terminal(v) ==
    LET allowedT == resp[v].allowed /\ resp[v].result = <<>> /\ retErr[v] = NilErr
        checkT == IsCheckDenial(resp[v]) /\ ~IsTimeoutDenial(resp[v])
                    /\ retErr[v] \notin CtxErrors /\ retErr[v] # NilErr
        timeoutT == IsTimeoutDenial(resp[v]) /\ ~IsCheckDenial(resp[v])
                    /\ retErr[v] \in CtxErrors
    IN  (allowedT /\ ~checkT /\ ~timeoutT)
            \/ (~allowedT /\ checkT /\ ~timeoutT)
            \/ (~allowedT /\ ~checkT /\ timeoutT)

C5_StateMachine ==
    /\ [](\A v \in Vals :
            /\ pcV[v] = "select" => (resp[v].allowed /\ resp[v].result = <<>>)
            /\ Returned(v) => Terminal(v))
    /\ [][\A v \in Vals :
            Returned(v) =>
                (pcV'[v] = "returned" /\ resp'[v] = resp[v] /\ retErr'[v] = retErr[v])]_vars

\* the abandoned check has delivered a failure after the timeout was returned
C5_Witness ==
    \E v \in Vals :
        /\ Returned(v) /\ IsTimeoutDenial(resp[v])
        /\ pcC[v] = "exit" /\ doneCh[v] # <<>> /\ doneCh[v][1] # NilErr

(* C6 as claimed: an empty slackChannel always yields a denial whose reason  *)
(* contains "slackChannel is required".                                      *)
C6_Original ==
    \A v \in Vals :
        (Returned(v) /\ msg[v].slackChannel = EmptyStr) =>
            /\ ~resp[v].allowed
            /\ retErr[v] # NilErr
            /\ Contains(ReasonOf(resp[v]), ErrSlackChannelRequired)

(* C6, amended: an empty slackChannel always yields a denial with a non-nil  *)
(* error, whatever the other fields; its reason contains "slackChannel is    *)
(* required" whenever the check's result is what the select received, and    *)
(* is the timeout reason when the scope ended first.                         *)
C6_MissingChannel ==
    \A v \in Vals :
        (Returned(v) /\ msg[v].slackChannel = EmptyStr) =>
            /\ ~resp[v].allowed
            /\ retErr[v] # NilErr
            /\ IF retErr[v] \in CtxErrors
               THEN ReasonOf(resp[v]) = TimeoutReason
               ELSE /\ Contains(ReasonOf(resp[v]), ErrSlackChannelRequired)
                    /\ retErr[v] = ErrSlackChannelRequired

C6_Witness ==
    \E v \in Vals :
        /\ Returned(v) /\ msg[v].slackChannel = EmptyStr
        /\ msg[v].namespace = EmptyStr /\ msg[v].subscriptions # <<>>
        /\ Contains(ReasonOf(resp[v]), ErrSlackChannelRequired)

(* C7 as claimed: a candidate with a malformed subscription entry is denied  *)
(* with a reason citing the first violation in list order.                   *)
C7_Original ==
    \A v \in Vals :
        (Returned(v) /\ \E i \in 1..Len(msg[v].subscriptions) :
                            BadEntry(msg[v].subscriptions[i])) =>
            /\ ~resp[v].allowed
            /\ Contains(ReasonOf(resp[v]), FirstViolation(msg[v].subscriptions))

(* C7, amended: a candidate with a malformed subscription entry is denied;   *)
(* when its slackChannel and namespace are non-empty and the check's result  *)
(* is what the select received, the reason cites the first violation in      *)
(* list order (stage before events within one entry), whatever the later     *)
(* entries are.                                                              *)
C7_FirstViolation ==
    \A v \in Vals :
        (Returned(v) /\ \E i \in 1..Len(msg[v].subscriptions) :
                            BadEntry(msg[v].subscriptions[i])) =>
            /\ ~resp[v].allowed
            /\ (FieldsPresent(msg[v]) /\ retErr[v] \notin CtxErrors) =>
                    /\ retErr[v] = FirstViolation(msg[v].subscriptions)
                    /\ ReasonOf(resp[v]) = FailureReason(FirstViolation(msg[v].subscriptions))

\* the first entry lacks events only, the second lacks its stage
C7_Witness ==
    \E v \in Vals :
        /\ Returned(v) /\ Len(msg[v].subscriptions) > 1
        /\ msg[v].subscriptions[1].stage # EmptyStr
        /\ Len(msg[v].subscriptions[1].events) = 0
        /\ msg[v].subscriptions[2].stage = EmptyStr
        /\ retErr[v] = ErrNoEvents

(* C8: in every terminal state the error is nil exactly when allowed is      *)
(* true; a denial carries a result with status "Failure" and a non-empty     *)
(* reason, an allowed response carries no result.                            *)
C8_ErrorIffDenied ==
    \A v \in Vals :
        Returned(v) =>
            /\ (retErr[v] = NilErr) <=> resp[v].allowed
            /\ ~resp[v].allowed =>
                    /\ Len(resp[v].result) = 1
                    /\ resp[v].result[1].status = <<"Failure">>
                    /\ resp[v].result[1].reason # EmptyStr
            /\ resp[v].allowed => resp[v].result = <<>>

C8_Witness ==
    \E v \in Vals :
        Returned(v) /\ ~resp[v].allowed /\ retErr[v] = ErrNamespaceRequired

(* C9 as claimed: whenever the case of asyncCtx.Done() is the one taken, the *)
(* response is the denial with the fixed timeout reason and the error is     *)
(* the deadline-exceeded error.                                              *)
C9_Original ==
    [][\A v \in Vals :
        CtxDoneWins(v) =>
            /\ ~resp'[v].allowed
            /\ ReasonOf(resp'[v]) = TimeoutReason
            /\ retErr'[v] = DeadlineExceeded]_vars

(* C9, amended: whenever the case of asyncCtx.Done() is the one taken, the   *)
(* response is the denial with the fixed timeout reason and the error is     *)
(* asyncCtx.Err(): deadline-exceeded when a deadline ended the scope,        *)
(* context.Canceled when the parent was cancelled; no check-failure denial   *)
(* carries a reason containing "timeout".                                    *)
C9_TimeoutDenial ==
    /\ [][\A v \in Vals :
            CtxDoneWins(v) =>
                /\ ~resp'[v].allowed
                /\ ReasonOf(resp'[v]) = TimeoutReason
                /\ ctxErr[v] \in CtxErrors
                /\ retErr'[v] = ctxErr[v]]_vars
    /\ [](\A v \in Vals :
            (Returned(v) /\ retErr[v] \notin CtxErrors) =>
                ~Contains(ReasonOf(resp[v]), <<"timeout">>))

\* the parent was cancelled and the call returned the timeout reason with Canceled
C9_Witness ==
    \E v \in Vals :
        /\ Returned(v) /\ ReasonOf(resp[v]) = TimeoutReason
        /\ retErr[v] = Canceled /\ pcC[v] # "exit"

(* C10: the registry is read and written only under the client's lock: a    *)
(* goroutine inside CreateConversation holds the write lock and is alone    *)
(* (no other writer, no reader); a goroutine inside ChannelExists holds a   *)
(* read lock and no writer is inside; readers may be inside together.       *)
InCreate(v) == pcC[v] \in {"alloc", "store", "unlock"}
InExists(v) == pcC[v] \in {"lookup", "runlock"}

C10_LockDiscipline ==
    \A v \in Vals :
        /\ InCreate(v) =>
                /\ writer = v
                /\ readers = {}
                /\ \A w \in Vals \ {v} : ~InCreate(w) /\ ~InExists(w)
        /\ InExists(v) => (v \in readers /\ writer = 0)

\* two ChannelExists inside together
C10_Witness ==
    \E v, w \in Vals :
        v # w /\ pcC[v] = "lookup" /\ pcC[w] = "lookup" /\ readers = {v, w}

(* C11: once CreateConversation has returned an identifier, every            *)
(* ChannelExists call on it answers true, whatever other creations happen    *)
(* in between; the answer of a call is exactly the presence of the           *)
(* identifier, presence never turns into absence, and no step of a           *)
(* ChannelExists call changes the registry or lastChannelReq.                *)
ReturnedIds ==
    {channelID[v] : v \in {w \in Vals : channelID[w] # EmptyStr /\ ~InCreate(w)}}

\* a step of a ChannelExists call, made by a check or by the outside goroutine
ExistsStep ==
    \/ probe' # probe
    \/ \E v \in Vals : pcC[v] \in {"rlock", "lookup", "runlock"} /\ pcC'[v] # pcC[v]

C11_ExistsStays ==
    /\ [](probe.pc = "runlock" =>
            /\ probe.ans <=> MapHas(channels, probe.id)
            /\ probe.id \in ReturnedIds => probe.ans)
    /\ [][\A id \in ProbeIds : MapHas(channels, id) => MapHas(channels', id)]_vars
    /\ [][ExistsStep => (channels' = channels /\ lastChannelReq' = lastChannelReq)]_vars

\* the first identifier is still found after a later creation
C11_Witness ==
    /\ probe.pc = "runlock" /\ probe.ans
    /\ probe.id = FormatChannelID(0)
    /\ Cardinality(channels) > 1

\* the request of call v was handed to ValidateMessage and has been answered
Answered(v) == pcH[v] = "done" /\ DecodeFailure(req[v]) = EmptyStr

\* the response member of a JSON body, the empty mapping for any other body
EnvelopeOf(b) == IF b.kind = "json" THEN b.json.response ELSE <<>>

(* C12: for every request WebhookHandler hands to ValidateMessage the status *)
(* is 500 exactly when ValidateMessage returned an error, and the body is    *)
(* then the encoded denial envelope (allowed false, a result with status     *)
(* "Failure" and a reason); otherwise the status is 200 and the body is the  *)
(* encoded envelope with allowed true and no result.                         *)
C12_StatusMapping ==
    \A v \in Vals :
        Answered(v) =>
            /\ body[v].kind = "json"
            /\ (status[v] = StatusInternalServerError) <=> (retErr[v] # NilErr)
            /\ status[v] \in {StatusInternalServerError, StatusOK}
            /\ EnvelopeOf(body[v]).allowed = resp[v].allowed
            /\ IF retErr[v] # NilErr
               THEN /\ ~EnvelopeOf(body[v]).allowed
                    /\ "result" \in DOMAIN EnvelopeOf(body[v])
                    /\ EnvelopeOf(body[v]).result.status = <<"Failure">>
                    /\ EnvelopeOf(body[v]).result.reason = ReasonOf(resp[v])
                    /\ EnvelopeOf(body[v]).result.reason # EmptyStr
               ELSE /\ EnvelopeOf(body[v]).allowed
                    /\ "result" \notin DOMAIN EnvelopeOf(body[v])

\* a request denied by the namespace rule was answered 500 with the denial
C12_Witness ==
    \E v \in Vals :
        /\ Answered(v) /\ status[v] = StatusInternalServerError
        /\ req[v].body.uid # EmptyStr
        /\ "result" \in DOMAIN EnvelopeOf(body[v])
        /\ Contains(EnvelopeOf(body[v]).result.reason, ErrNamespaceRequired)

(* C13: when the body cannot be read, is not valid JSON, does not fit the    *)
(* request envelope, or carries an object that is not a mapping (absent,     *)
(* null, a string, a list), WebhookHandler answers 400 with a plain text     *)
(* body; ValidateMessage is never invoked for that request, no check is      *)
(* launched, and the registry and lastChannelReq stay as they were.          *)
C13_DecodeErrors ==
    \A v \in Vals :
        (pcH[v] # "none" /\ (req[v].body.kind # "envelope"
                                \/ req[v].body.object.kind # "mapping")) =>
            /\ pcH[v] = "done"
            /\ status[v] = StatusBadRequest
            /\ body[v].kind = "text" /\ body[v].text # EmptyStr
            /\ pcV[v] = "idle" /\ pcC[v] = "none"
            /\ resp[v] = NoResp /\ msg[v] = NoMsg
            /\ channels = {} /\ lastChannelReq = EmptyStr
            /\ writer = 0 /\ readers = {}

\* an envelope whose object is a string was refused
C13_Witness ==
    \E v \in Vals :
        /\ pcH[v] = "done" /\ status[v] = StatusBadRequest
        /\ req[v].body.kind = "envelope" /\ req[v].body.object.kind = "string"
        /\ req[v].body.uid # EmptyStr /\ req[v].method = "POST"

(* C14: the envelope WebhookHandler writes for a request carries the uid of  *)
(* that request.                                                             *)
C14_UidEchoed ==
    \A v \in Vals :
        Answered(v) =>
            /\ "uid" \in DOMAIN EnvelopeOf(body[v])
            /\ EnvelopeOf(body[v]).uid = req[v].body.uid

(* C15: every response is built allowed, with a non-empty identifier, and    *)
(* any two validations, also two that read the clock at the same instant,    *)
(* get different identifiers.                                                *)
C15_UidUnique ==
    \A v \in Vals :
        pcV[v] # "idle" =>
            /\ resp[v].uid # EmptyStr
            /\ pcV[v] = "select" => resp[v].allowed
            /\ \A w \in Vals \ {v} : pcV[w] # "idle" => resp[w].uid # resp[v].uid

(* C16: a request to WebhookHandler with a method other than POST is         *)
(* answered 405 and is neither decoded nor validated: ValidateMessage is not *)
(* invoked, no check is launched and nothing is provisioned.                 *)
C16_MethodNotAllowed ==
    \A v \in Vals :
        (pcH[v] # "none" /\ req[v].method # "POST") =>
            /\ pcH[v] = "done"
            /\ status[v] = StatusMethodNotAllowed
            /\ pcV[v] = "idle" /\ pcC[v] = "none"
            /\ channels = {} /\ lastChannelReq = EmptyStr

\* the check of call v has returned and holds its outcome, not yet sent
CheckReturned(v) == pcC[v] = "send"

\* a step of the check goroutine of call v
ChecksStep(v) == pcC'[v] # pcC[v] /\ pcC[v] # "none"

(* C17 as claimed: the rules are tried in the order slackChannel, namespace, *)
(* provisioning, subscriptions; a candidate with slackChannel and namespace  *)
(* both empty is denied with "slackChannel is required"; a validation that   *)
(* fails one of the two field rules leaves the client untouched.             *)
C17_Original ==
    \A v \in Vals :
        /\ (Returned(v) /\ msg[v].slackChannel = EmptyStr /\ msg[v].namespace = EmptyStr) =>
                ReasonOf(resp[v]) = FailureReason(ErrSlackChannelRequired)
        /\ (pcC[v] # "none" /\ ~FieldsPresent(msg[v])) =>
                (channels = {} /\ lastChannelReq = EmptyStr)

(* C17, amended: the check tries slackChannel, then namespace, then          *)
(* provisioning, then the subscriptions, and returns at the first failing    *)
(* rule: it returns "slackChannel is required" for an empty slackChannel     *)
(* whatever the namespace, "namespace is required" for an empty namespace    *)
(* otherwise, and a subscription error only once the channel is in the       *)
(* registry.  A candidate with both fields empty is denied, with             *)
(* "slackChannel is required" whenever the check's result is what the        *)
(* select received (with the timeout reason when the scope ended first).  A  *)
(* check that fails a field rule takes no lock and no step of it changes     *)
(* the registry or lastChannelReq.                                           *)
C17_FailFast ==
    /\ [](\A v \in Vals :
            /\ (CheckReturned(v) /\ msg[v].slackChannel = EmptyStr) =>
                    chkErr[v] = ErrSlackChannelRequired
            /\ (CheckReturned(v) /\ msg[v].slackChannel # EmptyStr
                    /\ msg[v].namespace = EmptyStr) => chkErr[v] = ErrNamespaceRequired
            /\ (CheckReturned(v) /\ chkErr[v] \in {ErrStageEmpty, ErrNoEvents}) =>
                    (FieldsPresent(msg[v]) /\ MapHas(channels, channelID[v]))
            /\ (pcC[v] \notin {"none", "rules"} /\ ~FieldsPresent(msg[v])) =>
                    /\ pcC[v] \in {"send", "exit"}
                    /\ channelID[v] = EmptyStr /\ writer # v /\ v \notin readers
                    /\ channels = {} /\ lastChannelReq = EmptyStr
            /\ (Returned(v) /\ msg[v].slackChannel = EmptyStr
                    /\ msg[v].namespace = EmptyStr) =>
                    /\ ~resp[v].allowed
                    /\ IF retErr[v] \in CtxErrors
                       THEN ReasonOf(resp[v]) = TimeoutReason
                       ELSE ReasonOf(resp[v]) = FailureReason(ErrSlackChannelRequired))
    /\ [][\A v \in Vals :
            (ChecksStep(v) /\ ~FieldsPresent(msg[v])) => UNCHANGED clientVars]_vars

\* both fields empty, malformed subscriptions as well: denied for the slackChannel
C17_Witness ==
    \E v \in Vals :
        /\ Returned(v) /\ pcC[v] = "exit"
        /\ msg[v].slackChannel = EmptyStr /\ msg[v].namespace = EmptyStr
        /\ Len(msg[v].subscriptions) > 0 /\ BadEntry(msg[v].subscriptions[1])
        /\ retErr[v] = ErrSlackChannelRequired
        /\ ReasonOf(resp[v]) = FailureReason(ErrSlackChannelRequired)
        /\ channels = {}

\* call v has returned the timeout-class denial
TimedOut(v) == Returned(v) /\ IsTimeoutDenial(resp[v])

(* C18: returning the timeout-class denial leaves the check where it is; the *)
(* check goes on and, with every goroutine scheduled, ends: its send on done *)
(* finds the one slot free, so it never waits for a receiver; an abandoned   *)
(* check that has ended did all its work (its channel is in the registry)    *)
(* and its result lies unread in done.                                       *)
C18_AbandonedCheckEnds ==
    /\ [](\A v \in Vals :
            /\ pcC[v] = "send" => Len(doneCh[v]) < 1
            /\ (TimedOut(v) /\ pcC[v] = "exit") =>
                    /\ Len(doneCh[v]) = 1
                    /\ FieldsPresent(msg[v]) => MapHas(channels, channelID[v]))
    /\ [][\A v \in Vals :
            /\ CtxDoneWins(v) => (pcC'[v] = pcC[v] /\ doneCh'[v] = doneCh[v])
            /\ (TimedOut(v) /\ pcC[v] = "send" /\ ChecksStep(v)) => pcC'[v] = "exit"]_vars
    /\ <>[](\A v \in Vals : pcC[v] \in {"none", "exit"})

\* the parent was cancelled, and the abandoned check still provisioned and ended
C18_Witness ==
    \E v \in Vals :
        /\ TimedOut(v) /\ retErr[v] = Canceled
        /\ pcC[v] = "exit" /\ Len(doneCh[v]) = 1
        /\ channelID[v] # EmptyStr /\ MapHas(channels, channelID[v])

\* the check of call v waits in m.mu.Lock() or m.mu.RLock()
WaitsForLock(v) == pcC[v] \in {"lock", "rlock"}

(* C19: the lock is held only inside the body of CreateConversation (write   *)
(* lock) or ChannelExists (read lock): never across the 100 ms wait, at the  *)
(* send, after the check has ended, or by a check that has not called the    *)
(* client, whether or not its validation has timed out.  While a check       *)
(* waits for the lock some check can take a step (no deadlock), a waiting    *)
(* check leaves its wait only by acquiring the lock, and with every          *)
(* goroutine scheduled no check is left waiting for ever.                    *)
C19_LockReleased ==
    /\ [](\A v \in Vals :
            /\ writer = v => InCreate(v)
            /\ v \in readers => InExists(v)
            /\ pcC[v] \in {"none", "rules", "lock", "rlock", "sleep", "asleep", "send", "exit"}
                    => (writer # v /\ v \notin readers))
    /\ []((\E v \in Vals : WaitsForLock(v)) => ENABLED (\E w \in Vals : CheckStep(w)))
    /\ [][\A v \in Vals :
            /\ pcC[v] = "lock" => pcC'[v] \in {"lock", "alloc"}
            /\ pcC[v] = "rlock" => pcC'[v] \in {"rlock", "lookup"}
            /\ pcC'[v] = "alloc" => (pcC[v] = "alloc" \/ (writer = 0 /\ readers = {}))]_vars
    /\ <>[](\A v \in Vals : ~WaitsForLock(v))

\* a check takes the lock after another validation has timed out past its client calls
C19_Witness ==
    \E v, w \in Vals :
        /\ v # w
        /\ TimedOut(v) /\ pcC[v] \in {"sleep", "asleep", "send", "exit"}
        /\ TimedOut(w) /\ pcC[w] = "alloc" /\ writer = w

\* the error, or reason, reports a provisioning failure
IsProvisioningFailure(e) ==
    \/ Contains(e, <<"failed", "to", "create", "Slack", "channel:">>)
    \/ Contains(e, <<"not", "found", "after", "creation">>)

(* C20: CreateConversation returns no error, and the existence check that    *)
(* follows it under a separate lock finds the identifier, also when other    *)
(* validations have created channels in between; so no check returns, no     *)
(* done channel carries and no response or error reports a provisioning      *)
(* failure.                                                                  *)
C20_NoProvisioningFailure ==
    \A v \in Vals :
        /\ pcC[v] = "rlock" => (chkErr[v] = NilErr /\ MapHas(channels, channelID[v]))
        /\ pcC[v] \in {"runlock", "sleep", "asleep"} => chkErr[v] = NilErr
        /\ ~IsProvisioningFailure(chkErr[v])
        /\ \A i \in 1..Len(doneCh[v]) : ~IsProvisioningFailure(doneCh[v][i])
        /\ ~IsProvisioningFailure(retErr[v])
        /\ ~IsProvisioningFailure(ReasonOf(resp[v]))

\* a check found its channel after another validation had created one in between
C20_Witness ==
    \E v \in Vals :
        /\ pcC[v] = "runlock" /\ chkErr[v] = NilErr
        /\ channelID[v] = FormatChannelID(0)
        /\ Cardinality(channels) > 1

\* the step in which CreateConversation, called by the check of v, writes the registry
StoresEntry(v) == pcC[v] = "store" /\ pcC'[v] = "unlock"

(* C21: the identifier CreateConversation allocates is the one formatted     *)
(* from the registry's size and is not in the registry when it is stored;    *)
(* every entry, with its visibility flag, stays in the registry for ever;    *)
(* the registry changes only in the storing step of a CreateConversation,    *)
(* and then grows by exactly one entry; no identifier has two entries.       *)
C21_WriteOnce ==
    /\ [](\A v \in Vals :
            pcC[v] = "store" =>
                /\ channelID[v] = FormatChannelID(Cardinality(channels))
                /\ ~MapHas(channels, channelID[v]))
    /\ [](Cardinality({e.id : e \in channels}) = Cardinality(channels))
    /\ [][channels \subseteq channels']_vars
    /\ [][channels' # channels =>
            /\ Cardinality(channels') = Cardinality(channels) + 1
            /\ \E v \in Vals :
                /\ StoresEntry(v)
                /\ channels' \ channels =
                        {[id |-> channelID[v], private |-> msg[v].channelType = <<"private">>]}]_vars
    /\ [][\A v \in Vals : StoresEntry(v) => channels' # channels]_vars

\* a second creation has stored the identifier of size one next to the first entry
C21_Witness ==
    \E v \in Vals :
        /\ pcC[v] = "unlock"
        /\ channelID[v] = FormatChannelID(1)
        /\ MapHas(channels, FormatChannelID(0)) /\ MapHas(channels, channelID[v])

\* what the rules say of a candidate, from its fields alone
OwnVerdict(m) ==
    IF m.slackChannel = EmptyStr THEN ErrSlackChannelRequired
    ELSE IF m.namespace = EmptyStr THEN ErrNamespaceRequired
    ELSE IF \E i \in 1..Len(m.subscriptions) : BadEntry(m.subscriptions[i])
         THEN FirstViolation(m.subscriptions)
    ELSE NilErr

\* everything call v and its check goroutine keep for themselves
PerCall(v) ==
    <<pcV[v], msg[v], resp[v], retErr[v], ctxErr[v], deadline[v], doneCh[v], pcC[v],
      channelID[v], chkErr[v], wake[v]>>

(* C22: the decision of a validation whose check completed before its scope  *)
(* ended (allowed flag, reason and error) is the one its own candidate's     *)
(* fields call for, whatever the other validations are and however they      *)
(* interleave; and no step changes what two different calls keep for         *)
(* themselves: calls meet only in the client (registry, lastChannelReq,      *)
(* lock).                                                                    *)
C22_Independent ==
    /\ [](\A v \in Vals :
            (Returned(v) /\ retErr[v] \notin CtxErrors) =>
                /\ retErr[v] = OwnVerdict(msg[v])
                /\ resp[v].allowed <=> (OwnVerdict(msg[v]) = NilErr)
                /\ ReasonOf(resp[v]) =
                        IF OwnVerdict(msg[v]) = NilErr THEN EmptyStr
                        ELSE FailureReason(OwnVerdict(msg[v])))
    /\ [][\A v, w \in Vals :
            (v # w /\ PerCall(v)' # PerCall(v)) => PerCall(w)' = PerCall(w)]_vars

\* a call denied for its subscription, its channel created after another call's
C22_Witness ==
    \E v, w \in Vals :
        /\ v # w
        /\ Returned(v) /\ retErr[v] = ErrStageEmpty /\ ~resp[v].allowed
        /\ channelID[v] = FormatChannelID(1)
        /\ Returned(w) /\ resp[w].allowed /\ channelID[w] = FormatChannelID(0)

\* the calls whose candidate passes the two required-field rules
PassedFields == {v \in 1..HarnessCalls : pcV[v] # "idle" /\ FieldsPresent(msg[v])}

\* the check of call v is past the store of CreateConversation
PastStore(v) == pcC[v] \notin {"none", "rules", "lock", "alloc", "store"}

(* C23: a check whose candidate has a slackChannel and a namespace puts one  *)
(* entry into the registry, and the entry stays whatever the validation      *)
(* returns: a check that has ended has its entry in the registry exactly     *)
(* when its candidate passed the two rules, also when the validation was     *)
(* denied for a subscription or for a timeout; no return of ValidateMessage  *)
(* changes the registry; and once every check has ended the registry has as  *)
(* many entries as there are validations that passed the two rules.          *)
C23_NoRollback ==
    /\ [](\A v \in Vals :
            /\ (PastStore(v) /\ FieldsPresent(msg[v])) =>
                    Cardinality({e \in channels : e.id = channelID[v]}) = 1
            /\ (PastStore(v) /\ ~FieldsPresent(msg[v])) => channelID[v] = EmptyStr)
    /\ []((\A v \in 1..HarnessCalls : pcC[v] = "exit") =>
            Cardinality(channels) = Cardinality(PassedFields))
    /\ [][\A v \in Vals : (~Returned(v) /\ Returned(v)') => channels' = channels]_vars

\* one validation denied for its subscription, another for a timeout: two entries
C23_Witness ==
    /\ \A v \in 1..HarnessCalls : pcC[v] = "exit" /\ Returned(v)
    /\ \E v, w \in Vals :
        /\ retErr[v] = ErrStageEmpty
        /\ TimedOut(w)
    /\ \A v \in 1..HarnessCalls : ~resp[v].allowed
    /\ Cardinality(channels) = HarnessCalls

\* the calls whose CreateConversation wrote the entry with the highest identifier
LastCreators ==
    {v \in Vals : /\ pcC[v] # "store"
                  /\ channelID[v] # EmptyStr
                  /\ channelID[v] = FormatChannelID(Cardinality(channels) - 1)}

(* C24: lastChannelReq is empty while the registry is, and otherwise is the  *)
(* name passed to the CreateConversation that wrote the entry with the       *)
(* highest identifier, which is one call's; the name changes only in the     *)
(* step that writes the registry, to the slackChannel of the writing call.   *)
C24_LastName ==
    /\ []((channels = {}) <=> (lastChannelReq = EmptyStr))
    /\ [](channels # {} =>
            /\ Cardinality(LastCreators) = 1
            /\ \A v \in LastCreators : lastChannelReq = msg[v].slackChannel)
    /\ [][lastChannelReq' # lastChannelReq =>
            \E v \in Vals : StoresEntry(v) /\ lastChannelReq' = msg[v].slackChannel]_vars

\* the first call created its channel second, and its name is the one kept
C24_Witness ==
    /\ Cardinality(channels) = 2
    /\ channelID[1] = FormatChannelID(1)
    /\ lastChannelReq = ChannelName(1)
    /\ pcC[1] = "exit" /\ pcC[2] = "exit"

(* C25: the receiver answers 200 only to a POST whose X-Webhook-Secret is    *)
(* the expected secret; a request with another method gets 405 whatever its  *)
(* secret, a POST without the header 401, a POST with a wrong secret 403;    *)
(* the body is read, and anything of the request logged, only in a POST      *)
(* with the expected secret.                                                 *)
C25_ReceiverOrder ==
    \A v \in Vals :
        LET r == rcv[v].req
            given == IF r.secret = <<>> THEN "" ELSE r.secret[1]
        IN  /\ rcv[v].status = StatusOK => (r.method = "POST" /\ given = ExpectedSecret)
            /\ (rcv[v].pc = "done" /\ r.method # "POST") =>
                    rcv[v].status = StatusMethodNotAllowed
            /\ (rcv[v].pc = "done" /\ r.method = "POST" /\ r.secret = <<>>) =>
                    rcv[v].status = StatusUnauthorized
            /\ (rcv[v].pc = "done" /\ r.method = "POST"
                    /\ given # "" /\ given # ExpectedSecret) =>
                    rcv[v].status = StatusForbidden
            /\ (rcv[v].pc = "done" /\ r.method = "POST" /\ given = ExpectedSecret) =>
                    rcv[v].status \in {StatusOK, StatusBadRequest}
            /\ (rcv[v].read \/ rcv[v].pc \in {"read", "log"}) =>
                    (r.method = "POST" /\ given = ExpectedSecret)
            /\ (\E i \in 1..Len(rcv[v].log) :
                    rcv[v].log[i] \in {"Raw body", "Headers", "Pretty payload"}) =>
                    (rcv[v].read /\ rcv[v].status = StatusOK)

\* a POST with a wrong secret was refused with 403, its body unread
C25_Witness ==
    \E v \in Vals :
        /\ rcv[v].pc = "done" /\ rcv[v].status = StatusForbidden
        /\ rcv[v].req.method = "POST" /\ rcv[v].req.body = "json"
        /\ ~rcv[v].read
====
